---- MODULE Spec2Model ----
(***************************************************************************)
(* A model of the backup monitor of restic-backup-checker                  *)
(* (package monitor: Monitor.Start, Stop, CheckOnce, monitoringLoop,       *)
(* checkClientBackup, sendNotifications, refreshTokenIfNeeded) together    *)
(* with the parts of the OneDrive client, the authenticator, the Telegram  *)
(* client and the configuration it calls.                                  *)
(*                                                                         *)
(* Time is counted in minutes since the Unix epoch.  The remote services   *)
(* (OneDrive, the token endpoint, Telegram, the file system) are the       *)
(* environment: every call to one of them answers nondeterministically,    *)
(* with a failure or with a value of a small set.                          *)
(***************************************************************************)
EXTENDS Integers, Sequences, FiniteSets, TLC

(***************************************************************************)
(* Program constants                                                       *)
(***************************************************************************)
\* 24 * time.Hour, in minutes
Day == 1440
\* the 10 minute buffer of refreshTokenIfNeeded, in minutes
RefreshMargin == 10
\* the zero time.Time (year 1): it is before every real instant
ZeroTime == 0
\* the empty string as a token ("" in Go); real tokens are numbered from 1
NoToken == 0
\* the length in bytes of the key generateEncryptionKey derives
KeyLen == 32
\* the key lengths aes.NewCipher accepts
AESKeySizes == {16, 24, 32}

(***************************************************************************)
(* Bounds of the model                                                     *)
(***************************************************************************)
\* files in one listing of a snapshots folder
MaxFiles == 2
\* client folders in one listing of a monitored path
MaxClients == 2
\* entries of config.OneDrive.MonitorPaths
MaxPaths == 2
\* client folders under all the monitored paths together
MaxStatuses == 2
\* check cycles one caller runs
MaxCycles == 2
\* tokens the token endpoint issues
MaxIssued == 2

\* the instant the model starts at: 23:55 UTC on the second day of the epoch
StartNow == 2 * Day - 5
\* the instants the clock takes: 23:55 and 00:00 of the next day
Clock == {StartNow, 2 * Day}
\* creation times the storage reports: unparsable (zero), 23:50 and 00:00
CreatedTimes == {ZeroTime, 2 * Day - 10, 2 * Day}
\* expires_in of a token response, in minutes
ExpiresIn == {10, 60}
\* stored token expiries at the start (Unix time, in minutes): never
\* recorded, expired, exactly the margin ahead, the margin ahead at 00:00,
\* and well ahead
ExpiryChoices ==
    {0, StartNow - 5, StartNow + RefreshMargin, StartNow + RefreshMargin + 5,
     StartNow + 20}

PathIDs == {"p1", "p2"}
ClientNames == {"Alpha", "Beta"}
\* the callers of CheckOnce: the scheduler (Start and monitoringLoop) and a
\* manual check issued from another control path
Runners == {"sched", "manual"}

SeqsUpTo(S, n) == UNION {[1..k -> S] : k \in 0..n}

Range(s) == {s[i] : i \in 1..Len(s)}

(***************************************************************************)
(* time.Time                                                               *)
(***************************************************************************)
\* t.UTC().Truncate(24 * time.Hour)
Truncate(t) == t - (t % Day)

\* t.IsZero()
IsZero(t) == t = ZeroTime

\* the last-backup label of an alert: "Unknown" for the zero time, else the
\* time formatted as 2006-01-02 15:04:05
FormatLabel(t) ==
    IF IsZero(t) THEN [known |-> FALSE, at |-> ZeroTime]
    ELSE [known |-> TRUE, at |-> t]

(***************************************************************************)
(* package onedrive: the answers of the storage and the listings           *)
(***************************************************************************)
\* a client folder of the drive: a Folder with its ID and Name
Folder(p, n) == [ID |-> <<p, n>>, Name |-> n]

\* the client folders a top-level folder can hold, in the order of a listing
ClientLists ==
    {s \in SeqsUpTo(ClientNames, MaxClients) :
        \A i, j \in 1..Len(s) : i < j => s[i] # s[j] /\ s[i] = "Alpha"}

\* GetSubfolders of a monitored path: a failure, or its client folders
PathResponses(p, names) ==
    {[ok |-> FALSE, folders |-> <<>>],
     [ok |-> TRUE, folders |-> [i \in 1..Len(names) |-> Folder(p, names[i])]]}

\* GetSubfolders of a client folder: a failure, or the names of its folders
SubfolderResponses ==
    {[ok |-> FALSE, names |-> <<>>],
     [ok |-> TRUE, names |-> <<>>],
     [ok |-> TRUE, names |-> <<"Snapshots">>],
     [ok |-> TRUE, names |-> <<"data", "snapshots">>]}

\* GetFolderContents of a snapshots folder at instant n: a failure, or the
\* creation times of its files (no file is created in the future)
ContentResponses(n) ==
    {[ok |-> FALSE, files |-> <<>>]} \cup
    {[ok |-> TRUE, files |-> fs] :
        fs \in SeqsUpTo({c \in CreatedTimes : c <= n}, MaxFiles)}

\* GetAllSnapshots with a match of the folder name that ignores the case
GetAllSnapshots_AnyCase(sub, con) ==
    IF ~sub.ok THEN [err |-> "subfolders", files |-> <<>>]
    ELSE IF ~(\E i \in 1..Len(sub.names) :
                sub.names[i] \in {"snapshots", "Snapshots"})
    THEN [err |-> "nosnapshots", files |-> <<>>]
    ELSE IF ~con.ok THEN [err |-> "contents", files |-> <<>>]
    ELSE [err |-> "none", files |-> con.files]

\* Client.GetAllSnapshots, given the answers of its two requests
GetAllSnapshots(sub, con) ==
    IF ~sub.ok THEN [err |-> "subfolders", files |-> <<>>]
    ELSE IF ~(\E i \in 1..Len(sub.names) : sub.names[i] = "snapshots")
    THEN [err |-> "nosnapshots", files |-> <<>>]
    ELSE IF ~con.ok THEN [err |-> "contents", files |-> <<>>]
    ELSE [err |-> "none", files |-> con.files]

\* a test of the last 24 hours in place of the UTC day
TodayFiles_Last24Hours(files, n) ==
    SelectSeq(files, LAMBDA f : f <= n /\ n - f < Day)

\* the files of a listing that were created on the UTC day of n
TodayFiles(files, n) ==
    SelectSeq(files, LAMBDA f : Truncate(f) = Truncate(n))

\* Client.CheckTodayBackups, given the listing and time.Now()
CheckTodayBackups(all, n) ==
    IF all.err # "none"
    THEN [hasBackup |-> FALSE, files |-> <<>>, err |-> all.err]
    ELSE [hasBackup |-> Len(TodayFiles(all.files, n)) > 0,
          files |-> TodayFiles(all.files, n), err |-> "none"]

(***************************************************************************)
(* package monitor: the pure parts                                         *)
(***************************************************************************)
\* a most recent time that is the creation time of the first listed file
LatestBackup_First(files, latest) ==
    IF files = <<>> THEN latest ELSE Head(files)

\* the loop of checkClientBackup that finds the most recent creation time
RECURSIVE LatestBackup(_, _)
LatestBackup(files, latest) ==
    IF files = <<>> THEN latest
    ELSE LatestBackup(Tail(files),
                      IF Head(files) > latest THEN Head(files) ELSE latest)

\* a checkClientBackup that returns an errored status when its second
\* listing fails
checkClientBackup_ErrorsLate(folderID, clientName, first, second, n) ==
    LET today == CheckTodayBackups(first, n)
        status == [ClientName |-> clientName, FolderPath |-> folderID,
                   HasBackup |-> FALSE, FileCount |-> 0,
                   LastBackup |-> ZeroTime, Error |-> "none"]
    IN  IF today.err # "none" THEN [status EXCEPT !.Error = today.err]
        ELSE IF second.err # "none" THEN [status EXCEPT !.Error = second.err]
        ELSE [status EXCEPT
                !.HasBackup = today.hasBackup,
                !.FileCount = Len(today.files),
                !.LastBackup = LatestBackup(second.files, ZeroTime)]

\* a checkClientBackup that records the error of its second listing in the
\* status it has filled from the first
checkClientBackup_KeepsPartial(folderID, clientName, first, second, n) ==
    LET today == CheckTodayBackups(first, n)
        status == [ClientName |-> clientName, FolderPath |-> folderID,
                   HasBackup |-> FALSE, FileCount |-> 0,
                   LastBackup |-> ZeroTime, Error |-> "none"]
    IN  IF today.err # "none" THEN [status EXCEPT !.Error = today.err]
        ELSE [status EXCEPT
                !.HasBackup = today.hasBackup,
                !.FileCount = Len(today.files),
                !.Error = second.err,
                !.LastBackup = IF second.err # "none" THEN ZeroTime
                               ELSE LatestBackup(second.files, ZeroTime)]

\* Monitor.checkClientBackup, given the two listings and time.Now()
checkClientBackup(folderID, clientName, first, second, n) ==
    LET today == CheckTodayBackups(first, n)
        status == [ClientName |-> clientName, FolderPath |-> folderID,
                   HasBackup |-> FALSE, FileCount |-> 0,
                   LastBackup |-> ZeroTime, Error |-> "none"]
    IN  IF today.err # "none" THEN [status EXCEPT !.Error = today.err]
        ELSE [status EXCEPT
                !.HasBackup = today.hasBackup,
                !.FileCount = Len(today.files),
                !.LastBackup = IF second.err # "none" THEN ZeroTime
                               ELSE LatestBackup(second.files, ZeroTime)]

\* the counting with a first branch that forgets failedCount++
Counted_ErrorUncounted(c, status) ==
    IF status.Error # "none"
    THEN [c EXCEPT !.failedClients = Append(@, status.ClientName)]
    ELSE IF status.HasBackup
    THEN [c EXCEPT !.successCount = @ + 1]
    ELSE [c EXCEPT !.failedCount = @ + 1,
                   !.failedClients = Append(@, status.ClientName)]

\* the counting of a status in CheckOnce: c holds successCount,
\* failedCount and failedClients (and the rest of the cycle)
Counted(c, status) ==
    IF status.Error # "none"
    THEN [c EXCEPT !.failedCount = @ + 1,
                   !.failedClients = Append(@, status.ClientName)]
    ELSE IF status.HasBackup
    THEN [c EXCEPT !.successCount = @ + 1]
    ELSE [c EXCEPT !.failedCount = @ + 1,
                   !.failedClients = Append(@, status.ClientName)]

\* an alert test that leaves out the statuses with an error
NeedsAlert_SkipErrored(status) == ~status.HasBackup /\ status.Error = "none"

\* the statuses sendNotifications sends an alert for
NeedsAlert(status) == ~status.HasBackup

Alert(status) ==
    [kind |-> "alert", client |-> status.ClientName,
     folder |-> status.FolderPath, label |-> FormatLabel(status.LastBackup)]

Summary(total, success, failed, names) ==
    [kind |-> "summary", total |-> total, success |-> success,
     failed |-> failed, names |-> names]

\* the alerts of sendNotifications, in the order of the statuses
RECURSIVE Alerts(_)
Alerts(statuses) ==
    IF statuses = <<>> THEN <<>>
    ELSE (IF NeedsAlert(Head(statuses)) THEN <<Alert(Head(statuses))>>
          ELSE <<>>) \o Alerts(Tail(statuses))

\* sendNotifications without a summary when there is no status
Dispatches_NoEmptySummary(tg, statuses, successCount, failedCount, failedClients) ==
    IF tg = "nil" \/ statuses = <<>> THEN <<>>
    ELSE Alerts(statuses) \o
         <<Summary(Len(statuses), successCount, failedCount, failedClients)>>

\* sendNotifications with the summary before the alerts
Dispatches_SummaryFirst(tg, statuses, successCount, failedCount, failedClients) ==
    IF tg = "nil" THEN <<>>
    ELSE <<Summary(Len(statuses), successCount, failedCount, failedClients)>>
         \o Alerts(statuses)

\* the dispatches Monitor.sendNotifications attempts, in order: none without
\* a Telegram client, else the alerts and then the summary
Dispatches(tg, statuses, successCount, failedCount, failedClients) ==
    IF tg = "nil" THEN <<>>
    ELSE Alerts(statuses) \o
         <<Summary(Len(statuses), successCount, failedCount, failedClients)>>


\* the listings Client.GetAllSnapshots can return at instant n
SnapshotListings(n) ==
    {GetAllSnapshots(sub, con) :
        sub \in SubfolderResponses, con \in ContentResponses(n)}

\* the statuses checkClientBackup can return for a client folder at each
\* instant of the clock, over all the answers of the storage
StatusOutcomes ==
    [n \in Clock |->
        {checkClientBackup(<<>>, "", first, second, n) :
            first \in SnapshotListings(n), second \in SnapshotListings(n)}]

\* refreshTokenIfNeeded without its first test
NoExpiry_Unchecked(c) == FALSE

\* the first test of refreshTokenIfNeeded: no token expiry set
NoExpiry(c) == c.TokenExpiry = 0

\* a test that takes a token at exactly the margin for valid
NeedsRefresh_Strict(expiry, n) == n > expiry - RefreshMargin

\* the second test of refreshTokenIfNeeded: the token is refreshed unless
\* time.Now().Before(expiry.Add(-10 * time.Minute))
NeedsRefresh(expiry, n) == ~(n < expiry - RefreshMargin)

(***************************************************************************)
(* The state                                                               *)
(***************************************************************************)
VARIABLES
    now,        \* time.Now()
    config,     \* *config.Config, shared by every caller of the monitor
    disk,       \* the credential config.Save wrote last
    telegram,   \* Monitor.telegram: "nil" when telegram.New failed
    issued,     \* the tokens the token endpoint has issued
    drive,      \* OneDrive: the client folders of each top-level folder
    run,        \* for each caller of CheckOnce, its cycle
    sched,      \* Start, monitoringLoop and Stop: stopChan, wg and positions
    cli         \* the config reset command of the process, and its report

vars == <<now, config, disk, telegram, issued, drive, run, sched, cli>>

Credential(c) ==
    [AccessToken |-> c.AccessToken, RefreshToken |-> c.RefreshToken,
     TokenExpiry |-> c.TokenExpiry]

\* a client built from the access token a cycle held before its credential
\* step
NewClient_BeforeRefresh(c) == config.AccessToken

\* onedrive.NewClient(m.config.OneDrive.AccessToken) in CheckOnce: the client
\* carries the access token the configuration holds at the call
NewClient(c) == c.AccessToken

\* an update that keeps the refresh token the configuration held
StoreToken_KeepsRefreshToken(c, token) ==
    [c EXCEPT !.AccessToken = token.AccessToken,
              !.TokenExpiry = token.TokenExpiry]

\* the update of the configuration in refreshTokenIfNeeded: the three fields
\* of the credential are overwritten with those of the new token
StoreToken(c, token) ==
    [c EXCEPT !.AccessToken = token.AccessToken,
              !.RefreshToken = token.RefreshToken,
              !.TokenExpiry = token.TokenExpiry]

\* a caller that is not in CheckOnce and has run no cycle
NoCycle ==
    [pc |-> "idle",            \* "idle", "refresh" or "check"
     cycles |-> 0,             \* the cycles the caller has started
     client |-> NoToken,       \* the access token of onedrive.NewClient
     pi |-> 1,                 \* the index of the next monitored path
     pending |-> <<>>,         \* the client folders of the path left to check
     statuses |-> <<>>,
     successCount |-> 0,
     failedCount |-> 0,
     failedClients |-> <<>>,
     sent |-> <<>>,            \* the dispatches attempted, in order
     sendFailed |-> {},        \* the indices in sent of the dispatches
                               \* that returned an error
     notifyErr |-> FALSE,      \* sendNotifications returned an error
     ret |-> "none",           \* what CheckOnce returned: "nil" or "err"
     cred |-> "none",          \* how the credential step ended
     refreshCalls |-> 0,       \* calls of Authenticator.RefreshToken
     saves |-> 0,              \* calls of config.Save
     usedTokens |-> {},        \* the tokens of the storage requests
     judgedAt |-> {},          \* the instants time.Now() returned to the
                               \* CheckTodayBackups calls of the cycle in
                               \* progress
     listFailed |-> {}]        \* the indices of the paths GetSubfolders
                               \* failed for

InCycle(t) == run[t].pc # "idle"

\* the client folders under the monitored paths of a configuration
RECURSIVE Clients(_, _)
Clients(paths, d) ==
    IF paths = <<>> THEN 0 ELSE Len(d[Head(paths)]) + Clients(Tail(paths), d)

\* the credentials a stored configuration can carry
Credentials ==
    {[AccessToken |-> 1, RefreshToken |-> r, TokenExpiry |-> e] :
        r \in {NoToken, 1}, e \in ExpiryChoices}

ValidCredential ==
    [AccessToken |-> 1, RefreshToken |-> 1, TokenExpiry |-> StartNow + 20]

\* the configuration config.Load returns: the stored fields, the path of
\* the file and the key generateEncryptionKey derives
Config(c, paths) ==
    [AccessToken |-> c.AccessToken, RefreshToken |-> c.RefreshToken,
     TokenExpiry |-> c.TokenExpiry, MonitorPaths |-> paths, Enabled |-> TRUE,
     configPath |-> "config.enc", encryptionKey |-> KeyLen]

\* config.Config{}: the zero value of every field, the unexported ones too
ZeroConfig ==
    [AccessToken |-> NoToken, RefreshToken |-> NoToken, TokenExpiry |-> 0,
     MonitorPaths |-> <<>>, Enabled |-> FALSE,
     configPath |-> "", encryptionKey |-> 0]

\* Config.encrypt: aes.NewCipher takes keys of 16, 24 or 32 bytes
encrypt(c) == c.encryptionKey \in AESKeySizes

\* the outcomes of Config.Save: an error when the configuration cannot be
\* encrypted; otherwise the file system decides
Save(c) == IF encrypt(c) THEN {TRUE, FALSE} ELSE {FALSE}

\* the process has run no config command
NoCommand == [cmd |-> "none", confirmed |-> FALSE, report |-> "none"]

\* Stop has not been called
NoStop == [where |-> "none", cycle |-> 0, checked |-> 0]

\* where the scheduler is: in Start's initial check, in a check of the loop,
\* in the select of the loop, or elsewhere in Start; with the number of the
\* cycle and the clients it has checked
Position ==
    [where |-> IF sched.start = "initial" /\ InCycle("sched") THEN "initial"
               ELSE IF sched.loop = "running" /\ InCycle("sched") THEN "cycle"
               ELSE IF sched.loop = "running" THEN "select"
               ELSE "start",
     cycle |-> run["sched"].cycles,
     checked |-> Len(run["sched"].statuses)]

\* the scheduler of a monitor that New has just made
NoSchedule ==
    [start |-> "idle",        \* Start: "idle", "initial" (in the initial
                              \* check), "waitStop", "waitWg" or "returned"
     loop |-> "none",         \* monitoringLoop: "none", "running", "exited"
     stopChan |-> "open",     \* "open" or "closed"
     wg |-> 0,                \* the counter of the WaitGroup
     stop |-> "idle",         \* Stop: "idle", "waitWg" or "returned"
     panicked |-> FALSE,      \* a close of the closed stopChan panicked
     stopAt |-> NoStop]       \* where the scheduler was when Stop was called

\* the lists of monitored paths, repeated paths included; the IDs are
\* opaque to the monitor, so the first path is taken to be "p1"
PathLists ==
    {ps \in SeqsUpTo(PathIDs, MaxPaths) : ps # <<>> => ps[1] = "p1"}

\* monitor.New for a configuration: either any credential with one monitored
\* path that holds one client, or a valid credential with any monitored
\* paths, any client folders and any outcome of telegram.New
InitMonitor ==
    \/ /\ config \in {Config(c, <<"p1">>) : c \in Credentials}
       /\ drive = [p \in PathIDs |-> IF p = "p1" THEN <<"Alpha">> ELSE <<>>]
       /\ telegram = "bot"
    \/ /\ config \in {Config(ValidCredential, ps) : ps \in PathLists}
       /\ drive \in [PathIDs -> ClientLists]
       /\ Clients(config.MonitorPaths, drive) <= MaxStatuses
       /\ \A p \in PathIDs : p \notin Range(config.MonitorPaths) => drive[p] = <<>>
       /\ telegram \in {"nil", "bot"}

Init ==
    /\ now = StartNow
    /\ InitMonitor
    /\ disk = Credential(config)
    /\ issued = 0
    /\ run = [t \in Runners |-> NoCycle]
    /\ sched = NoSchedule
    /\ cli = NoCommand

\* sendNotifications returning at the first dispatch that fails
Attempted_StopAtFailure(dispatches, fails) ==
    IF \E i \in 1..Len(dispatches) : i \in fails
    THEN SubSeq(dispatches, 1,
                CHOOSE i \in 1..Len(dispatches) :
                    i \in fails /\ \A k \in 1..(i - 1) : k \notin fails)
    ELSE dispatches

\* the dispatches sendNotifications attempts when those at the indices fails
\* return an error: the error of an alert is logged and the loop goes on,
\* the error of the summary is returned after it, so each is attempted once
Attempted(dispatches, fails) == dispatches

(***************************************************************************)
(* The clock                                                               *)
(***************************************************************************)
Tick ==
    /\ \E n \in Clock : n > now /\ \A m \in Clock : m > now => n <= m /\ now' = n
    /\ UNCHANGED <<config, disk, telegram, issued, drive, run, sched, cli>>

(***************************************************************************)
(* Monitor.CheckOnce                                                       *)
(***************************************************************************)
\* the call of CheckOnce
EnterCheckOnce(t) ==
    run' = [run EXCEPT ![t] =
              [NoCycle EXCEPT !.pc = "refresh",
                              !.cycles = IF run[t].cycles < MaxCycles
                                         THEN run[t].cycles + 1
                                         ELSE MaxCycles]]

\* a CheckOnce that logs the error of the credential step and goes on
CredentialFails_Continues(t, how, calls) ==
    /\ run' = [run EXCEPT ![t].pc = "check", ![t].cred = how,
                          ![t].refreshCalls = calls,
                          ![t].client = config.AccessToken]
    /\ UNCHANGED <<config, disk, issued>>

\* CheckOnce returns the error of the credential step
CredentialFails(t, how, calls) ==
    /\ run' = [run EXCEPT ![t].pc = "idle", ![t].ret = "err",
                          ![t].cred = how, ![t].refreshCalls = calls]
    /\ UNCHANGED <<config, disk, issued>>

\* Monitor.refreshTokenIfNeeded, and onedrive.NewClient after it
RefreshTokenIfNeeded(t) ==
    /\ run[t].pc = "refresh"
    /\ IF NoExpiry(config)
       THEN CredentialFails(t, "noexpiry", 0)
       ELSE IF ~NeedsRefresh(config.TokenExpiry, now)
       THEN /\ run' = [run EXCEPT ![t].pc = "check", ![t].cred = "valid",
                                  ![t].client = NewClient(config)]
            /\ UNCHANGED <<config, disk, issued>>
       ELSE IF config.RefreshToken = NoToken
       \* Authenticator.RefreshToken: no refresh token available
       THEN CredentialFails(t, "failed", 1)
       ELSE \/ CredentialFails(t, "failed", 1)
            \/ /\ issued < MaxIssued
               /\ \E rotate \in BOOLEAN, e \in ExpiresIn, saved \in Save(config) :
                    LET new == [AccessToken |-> issued + 2,
                                RefreshToken |-> IF rotate THEN issued + 2
                                                 ELSE NoToken,
                                TokenExpiry |-> now + e]
                    IN  /\ config' = StoreToken(config, new)
                        /\ disk' = IF saved THEN new ELSE disk
                        /\ run' = [run EXCEPT
                                     ![t].pc = "check",
                                     ![t].cred = "refreshed",
                                     ![t].refreshCalls = 1,
                                     ![t].saves = 1,
                                     ![t].client = NewClient(config')]
               /\ issued' = issued + 1
    /\ UNCHANGED <<now, telegram, drive, sched, cli>>

\* a failed GetSubfolders that ends the loop over the monitored paths
PathFailed_Break(c) ==
    [c EXCEPT !.pi = Len(config.MonitorPaths) + 1,
              !.listFailed = @ \cup {c.pi},
              !.usedTokens = @ \cup {c.client}]

\* a turn of the loop over the monitored paths whose GetSubfolders failed:
\* the error is logged and the loop continues with the next path
PathFailed(c) ==
    [c EXCEPT !.pi = @ + 1,
              !.listFailed = @ \cup {c.pi},
              !.usedTokens = @ \cup {c.client}]

\* a turn of the loop over the monitored paths that got the client folders
PathListed(c, folders) ==
    [c EXCEPT !.pi = @ + 1,
              !.pending = folders,
              !.usedTokens = @ \cup {c.client}]

\* one turn of the loop over the monitored paths: GetSubfolders of the path
ListPath(t) ==
    /\ run[t].pc = "check"
    /\ run[t].pending = <<>>
    /\ run[t].pi <= Len(config.MonitorPaths)
    /\ \E resp \in PathResponses(config.MonitorPaths[run[t].pi],
                                  drive[config.MonitorPaths[run[t].pi]]) :
           run' = [run EXCEPT ![t] =
                     IF resp.ok THEN PathListed(run[t], resp.folders)
                     ELSE PathFailed(run[t])]
    /\ UNCHANGED <<now, config, disk, telegram, issued, drive, sched, cli>>

\* one turn of the loop over the client folders: checkClientBackup and the
\* counting of its status
CheckClient(t) ==
    /\ run[t].pc = "check"
    /\ run[t].pending # <<>>
    /\ LET folder == Head(run[t].pending) IN
       \E outcome \in StatusOutcomes[now] :
         LET status == [outcome EXCEPT !.ClientName = folder.Name,
                                       !.FolderPath = folder.ID]
         IN
         run' = [run EXCEPT ![t] =
                   Counted([@ EXCEPT !.pending = Tail(@),
                                     !.statuses = Append(@, status),
                                     !.usedTokens = @ \cup {run[t].client},
                                     !.judgedAt = @ \cup {now}],
                           status)]
    /\ UNCHANGED <<now, config, disk, telegram, issued, drive, sched, cli>>

\* Monitor.sendNotifications after the last path, with any of its dispatches
\* failing, and the return of CheckOnce, which only logs the error
SendNotifications(t) ==
    /\ run[t].pc = "check"
    /\ run[t].pending = <<>>
    /\ run[t].pi > Len(config.MonitorPaths)
    /\ LET d == Dispatches(telegram, run[t].statuses, run[t].successCount,
                           run[t].failedCount, run[t].failedClients)
       IN  \E fails \in SUBSET (1..Len(d)) :
             run' = [run EXCEPT
                       ![t].sent = Attempted(d, fails),
                       ![t].sendFailed = fails \cap 1..Len(Attempted(d, fails)),
                       ![t].notifyErr = (telegram = "nil") \/ Len(d) \in fails,
                       ![t].ret = "nil",
                       ![t].judgedAt = {},
                       ![t].pc = "idle"]
    /\ UNCHANGED <<now, config, disk, telegram, issued, drive, sched, cli>>

CheckOnce(t) ==
    \/ RefreshTokenIfNeeded(t)
    \/ ListPath(t)
    \/ CheckClient(t)
    \/ SendNotifications(t)

(***************************************************************************)
(* The check command: one manual check                                     *)
(***************************************************************************)
ManualCheck ==
    /\ run["manual"].pc = "idle"
    /\ run["manual"].cycles = 0
    /\ EnterCheckOnce("manual")
    /\ UNCHANGED <<now, config, disk, telegram, issued, drive, sched, cli>>

Next ==
    \/ Tick
    \/ ManualCheck
    \/ CheckOnce("manual")

Spec == Init /\ [][Next]_vars

\* monitor.New for the check command with any stored credential: one
\* monitored path that holds one client folder
InitCredential ==
    /\ now = StartNow
    /\ config \in {Config(c, <<"p1">>) : c \in Credentials}
    /\ drive = [p \in PathIDs |-> IF p = "p1" THEN <<"Alpha">> ELSE <<>>]
    /\ telegram = "bot"
    /\ disk = Credential(config)
    /\ issued = 0
    /\ run = [t \in Runners |-> NoCycle]
    /\ sched = NoSchedule
    /\ cli = NoCommand

\* the check command over the stored credentials
SpecCredential == InitCredential /\ [][Next]_vars

\* monitor.New for the check command with a valid credential: one monitored
\* path that holds any of the client folders
InitClients ==
    /\ now = StartNow
    /\ config = Config(ValidCredential, <<"p1">>)
    /\ drive \in {[p \in PathIDs |-> IF p = "p1" THEN cs ELSE <<>>] :
                    cs \in ClientLists}
    /\ telegram = "bot"
    /\ disk = Credential(config)
    /\ issued = 0
    /\ run = [t \in Runners |-> NoCycle]
    /\ sched = NoSchedule
    /\ cli = NoCommand

\* the check command over the client folders of one path
SpecClients == InitClients /\ [][Next]_vars

(***************************************************************************)
(* The config reset command                                                *)
(***************************************************************************)
\* the Run of the reset command: confirmReset, *cfg = config.Config{} and
\* cfg.Save(), whose error is logged in place of the success
ConfigReset ==
    /\ cli.cmd = "none"
    /\ \E confirmed \in BOOLEAN :
         IF ~confirmed
         THEN /\ cli' = [cmd |-> "reset", confirmed |-> FALSE,
                         report |-> "none"]
              /\ UNCHANGED <<config, disk>>
         ELSE /\ config' = ZeroConfig
              /\ \E saved \in Save(config') :
                   /\ disk' = IF saved THEN Credential(config') ELSE disk
                   /\ cli' = [cmd |-> "reset", confirmed |-> TRUE,
                              report |-> IF saved THEN "ok" ELSE "err"]
    /\ UNCHANGED <<now, telegram, issued, drive, run, sched>>

NextReset ==
    \/ Tick
    \/ ConfigReset

\* a process that runs the reset command
SpecReset == Init /\ [][NextReset]_vars

(***************************************************************************)
(* Monitor.Start, Monitor.monitoringLoop and Monitor.Stop                  *)
(***************************************************************************)
\* a Start that does not read Monitoring.Enabled
Start_IgnoresEnabled ==
    /\ sched.start = "idle"
    /\ sched' = [sched EXCEPT !.start = "initial"]
    /\ EnterCheckOnce("sched")
    /\ UNCHANGED <<now, config, disk, telegram, issued, drive, cli>>

\* a Start that goes to the loop without the initial check
Start_SkipsInitialCheck ==
    /\ sched.start = "idle"
    /\ IF ~config.Enabled
       THEN sched' = [sched EXCEPT !.start = "returned"]
       ELSE sched' = [sched EXCEPT !.start = "initial"]
    /\ UNCHANGED <<now, config, disk, telegram, issued, drive, run, cli>>

\* Start up to its first blocking call: it returns when monitoring is
\* disabled, and otherwise calls CheckOnce for the initial check
Start ==
    /\ sched.start = "idle"
    /\ IF ~config.Enabled
       THEN /\ sched' = [sched EXCEPT !.start = "returned"]
            /\ UNCHANGED run
       ELSE /\ sched' = [sched EXCEPT !.start = "initial"]
            /\ EnterCheckOnce("sched")
    /\ UNCHANGED <<now, config, disk, telegram, issued, drive, cli>>

\* Start after the initial check: wg.Add(1) and go m.monitoringLoop()
StartLoop ==
    /\ sched.start = "initial"
    /\ ~InCycle("sched")
    /\ sched' = [sched EXCEPT !.start = "waitStop", !.loop = "running",
                              !.wg = @ + 1]
    /\ UNCHANGED <<now, config, disk, telegram, issued, drive, run, cli>>

\* Start receives from the closed stopChan
StartStopped ==
    /\ sched.start = "waitStop"
    /\ sched.stopChan = "closed"
    /\ sched' = [sched EXCEPT !.start = "waitWg"]
    /\ UNCHANGED <<now, config, disk, telegram, issued, drive, run, cli>>

\* wg.Wait() of Start returns, and Start with it
StartReturn ==
    /\ sched.start = "waitWg"
    /\ sched.wg = 0
    /\ sched' = [sched EXCEPT !.start = "returned"]
    /\ UNCHANGED <<now, config, disk, telegram, issued, drive, run, cli>>

\* a loop that returns at the tick after a check that returned an error
LoopTick_ReturnsOnError ==
    /\ sched.loop = "running"
    /\ ~InCycle("sched")
    /\ IF run["sched"].ret = "err"
       THEN /\ sched' = [sched EXCEPT !.loop = "exited", !.wg = @ - 1]
            /\ UNCHANGED run
       ELSE /\ EnterCheckOnce("sched")
            /\ UNCHANGED sched
    /\ UNCHANGED <<now, config, disk, telegram, issued, drive, cli>>

\* a loop that does not wait for the check of the tick before
LoopTick_Overlapping ==
    /\ sched.loop = "running"
    /\ EnterCheckOnce("sched")
    /\ UNCHANGED <<now, config, disk, telegram, issued, drive, sched, cli>>

\* the select of monitoringLoop takes the ticker: a periodic check
LoopTick ==
    /\ sched.loop = "running"
    /\ ~InCycle("sched")
    /\ EnterCheckOnce("sched")
    /\ UNCHANGED <<now, config, disk, telegram, issued, drive, sched, cli>>

\* a loop that leaves the check in flight when stopChan is closed
LoopStop_Interrupts ==
    /\ sched.loop = "running"
    /\ sched.stopChan = "closed"
    /\ sched' = [sched EXCEPT !.loop = "exited", !.wg = @ - 1]
    /\ run' = [run EXCEPT !["sched"].pc = "idle"]
    /\ UNCHANGED <<now, config, disk, telegram, issued, drive, cli>>

\* the select of monitoringLoop takes stopChan: the loop returns, and its
\* deferred wg.Done() runs
LoopStop ==
    /\ sched.loop = "running"
    /\ ~InCycle("sched")
    /\ sched.stopChan = "closed"
    /\ sched' = [sched EXCEPT !.loop = "exited", !.wg = @ - 1]
    /\ UNCHANGED <<now, config, disk, telegram, issued, drive, run, cli>>

\* Stop up to its blocking call: close(m.stopChan)
Stop ==
    /\ sched.stop = "idle"
    /\ sched.start # "idle"
    /\ sched' = [sched EXCEPT !.stopChan = "closed", !.stop = "waitWg",
                              !.stopAt = Position]
    /\ UNCHANGED <<now, config, disk, telegram, issued, drive, run, cli>>

\* wg.Wait() of Stop returns, and Stop with it
StopReturn ==
    /\ sched.stop = "waitWg"
    /\ sched.wg = 0
    /\ sched' = [sched EXCEPT !.stop = "returned"]
    /\ UNCHANGED <<now, config, disk, telegram, issued, drive, run, cli>>

\* a further call of Stop on the monitor, after or during the first one:
\* close(m.stopChan) finds the channel closed and panics
StopAgain ==
    /\ sched.stop # "idle"
    /\ ~sched.panicked
    /\ sched' = [sched EXCEPT !.panicked = TRUE]
    /\ UNCHANGED <<now, config, disk, telegram, issued, drive, run, cli>>

\* the credentials whose credential step calls no token endpoint: without a
\* refresh token, without an expiry, or valid for the whole run
SettledCredentials ==
    {c \in Credentials :
        c.RefreshToken = NoToken \/ c.TokenExpiry \in {0, StartNow + 20}}

\* an expired credential with a refresh token
ExpiredCredential ==
    [AccessToken |-> 1, RefreshToken |-> 1, TokenExpiry |-> StartNow - 5]

\* monitor.New for the service: one monitored path with one client folder,
\* monitoring enabled or not, with a credential that needs no token endpoint
\* and any outcome of telegram.New, or with a credential to refresh
InitService ==
    /\ now = StartNow
    /\ \/ /\ config \in {[Config(c, <<"p1">>) EXCEPT !.Enabled = en] :
                           c \in SettledCredentials, en \in BOOLEAN}
          /\ telegram \in {"nil", "bot"}
       \/ /\ config = Config(ExpiredCredential, <<"p1">>)
          /\ telegram = "bot"
    /\ drive = [p \in PathIDs |-> IF p = "p1" THEN <<"Alpha">> ELSE <<>>]
    /\ disk = Credential(config)
    /\ issued = 0
    /\ run = [t \in Runners |-> NoCycle]
    /\ sched = NoSchedule
    /\ cli = NoCommand

Service ==
    \/ Start
    \/ StartLoop
    \/ StartStopped
    \/ StartReturn
    \/ LoopTick
    \/ LoopStop
    \/ Stop
    \/ StopReturn
    \/ CheckOnce("sched")

NextService ==
    \/ Tick
    \/ Service

\* the service alone
SpecService == InitService /\ [][NextService]_vars

\* monitor.New for an enabled service whose credential step calls no token
\* endpoint
InitLoop ==
    /\ InitService
    /\ config.Enabled
    /\ config.RefreshToken = NoToken \/ config.TokenExpiry \in {0, StartNow + 20}

\* the enabled service with a ticker that keeps firing, a select that takes
\* each of its ready cases again and again, and calls that return
SpecServiceFair ==
    /\ InitLoop /\ [][NextService]_vars
    /\ WF_vars(CheckOnce("sched"))
    /\ WF_vars(StartLoop)
    /\ WF_vars(LoopTick)
    /\ SF_vars(LoopStop)
    /\ WF_vars(StartStopped)
    /\ WF_vars(StartReturn)
    /\ WF_vars(StopReturn)

\* the enabled service whose Stop may be called again; a panic ends the
\* process and every task of it
NextStop ==
    \/ ~sched.panicked /\ NextService
    \/ StopAgain

SpecStop == InitLoop /\ [][NextStop]_vars

\* monitor.New for the service and a manual check of the same monitor: a
\* valid credential or one that is due for a refresh
InitConcurrent ==
    /\ now = StartNow
    /\ config \in {Config(c, <<"p1">>) :
                     c \in {d \in Credentials :
                              /\ d.RefreshToken # NoToken
                              /\ d.TokenExpiry \in {StartNow + RefreshMargin,
                                                    StartNow + 20}}}
    /\ drive = [p \in PathIDs |-> IF p = "p1" THEN <<"Alpha">> ELSE <<>>]
    /\ telegram = "bot"
    /\ disk = Credential(config)
    /\ issued = 0
    /\ run = [t \in Runners |-> NoCycle]
    /\ sched = NoSchedule
    /\ cli = NoCommand

NextConcurrent ==
    \/ Tick
    \/ Start
    \/ StartLoop
    \/ LoopTick
    \/ CheckOnce("sched")
    \/ ManualCheck
    \/ CheckOnce("manual")

\* the service, and a manual check of the same monitor from another task
SpecConcurrent == InitConcurrent /\ [][NextConcurrent]_vars


(***************************************************************************)
(* The properties                                                          *)
(***************************************************************************)
\* a cycle that got past the credential step and has returned
Completed(t) == run[t].pc = "idle" /\ run[t].ret = "nil"

Summaries(t) == SelectSeq(run[t].sent, LAMBDA d : d.kind = "summary")

AlertsSent(t) == SelectSeq(run[t].sent, LAMBDA d : d.kind = "alert")

\* the statuses of a cycle that are errored or not fresh
FailedStatuses(t) ==
    SelectSeq(run[t].statuses,
              LAMBDA st : st.Error # "none" \/ ~st.HasBackup)

FreshStatuses(t) ==
    SelectSeq(run[t].statuses,
              LAMBDA st : st.Error = "none" /\ st.HasBackup)

\* the IDs of the client folders under the monitored paths from the i-th on,
\* without the paths whose listing failed
RECURSIVE ListedFolders(_, _, _)
ListedFolders(i, paths, failed) ==
    IF i > Len(paths) THEN <<>>
    ELSE (IF i \in failed THEN <<>>
          ELSE [k \in 1..Len(drive[paths[i]]) |->
                   Folder(paths[i], drive[paths[i]][k]).ID])
         \o ListedFolders(i + 1, paths, failed)

\* C1: at most one check cycle executes at a time: no two callers are inside
\* CheckOnce together (the statement the code violates)
C1_AtMostOneCycle == Cardinality({t \in Runners : InCycle(t)}) <= 1

\* C2, as stated: every cycle that gets past the credential step sends the
\* summary exactly once
C2_Original == \A t \in Runners : Completed(t) => Len(Summaries(t)) = 1

\* C2, amended: a cycle that gets past the credential step attempts the
\* summary exactly once when the monitor has a Telegram client, with
\* total = success = failed = 0 when no client was found, and attempts no
\* dispatch when telegram.New had failed; before it returns nothing is sent
C2_SummaryOnce ==
    \A t \in Runners :
        /\ Completed(t) =>
             IF telegram = "nil" THEN run[t].sent = <<>>
             ELSE /\ Len(Summaries(t)) = 1
                  /\ Summaries(t)[1].total = Len(run[t].statuses)
                  /\ run[t].statuses = <<>> =>
                       /\ Summaries(t)[1].total = 0
                       /\ Summaries(t)[1].success = 0
                       /\ Summaries(t)[1].failed = 0
        /\ ~Completed(t) => run[t].sent = <<>>

C2_Witness ==
    /\ Completed("manual")
    /\ telegram = "bot"
    /\ config.MonitorPaths # <<>>
    /\ run["manual"].statuses = <<>>
    /\ Len(Summaries("manual")) = 1

\* C3, as stated: one alert for each errored or not fresh status, whose
\* clients are the failed-client names of the cycle
C3_Original ==
    \A t \in Runners :
        Completed(t) =>
            /\ Len(AlertsSent(t)) = Len(FailedStatuses(t))
            /\ [i \in 1..Len(AlertsSent(t)) |-> AlertsSent(t)[i].client]
                   = run[t].failedClients

\* C3, amended: with a Telegram client, the alerts of a cycle are one for
\* each errored or not fresh status, in order, for that client and folder,
\* labelled "Unknown" exactly when the status has no most-recent time; the
\* clients alerted are the failed-client names of the summary; no alert is
\* for a fresh status.  Without a Telegram client no alert is attempted.
C3_AlertPerFailure ==
    \A t \in Runners :
        Completed(t) =>
            IF telegram = "nil" THEN AlertsSent(t) = <<>>
            ELSE /\ Len(AlertsSent(t)) = Len(FailedStatuses(t))
                 /\ \A i \in 1..Len(AlertsSent(t)) :
                      /\ AlertsSent(t)[i].client = FailedStatuses(t)[i].ClientName
                      /\ AlertsSent(t)[i].folder = FailedStatuses(t)[i].FolderPath
                      /\ AlertsSent(t)[i].label.known
                           <=> FailedStatuses(t)[i].LastBackup # ZeroTime
                      /\ AlertsSent(t)[i].label.known =>
                           AlertsSent(t)[i].label.at
                               = FailedStatuses(t)[i].LastBackup
                 /\ [i \in 1..Len(AlertsSent(t)) |-> AlertsSent(t)[i].client]
                        = Summaries(t)[1].names
                 /\ Len(run[t].sent) = Len(FailedStatuses(t)) + 1

C3_Witness ==
    /\ Completed("manual")
    /\ telegram = "bot"
    /\ Len(run["manual"].statuses) = 2
    /\ run["manual"].statuses[1].Error # "none"
    /\ run["manual"].statuses[2].Error = "none"
    /\ ~run["manual"].statuses[2].HasBackup
    /\ run["manual"].statuses[2].LastBackup # ZeroTime
    /\ Len(AlertsSent("manual")) = 2
    /\ ~AlertsSent("manual")[1].label.known
    /\ AlertsSent("manual")[2].label.known

\* C4: at every point of a cycle the success count plus the failed count is
\* the number of statuses and the failed-client list has failed-count
\* entries, and so has every summary
C4_CountsAddUp ==
    \A t \in Runners :
        /\ run[t].successCount + run[t].failedCount = Len(run[t].statuses)
        /\ Len(run[t].failedClients) = run[t].failedCount
        /\ run[t].failedCount = Len(FailedStatuses(t))
        /\ \A i \in 1..Len(Summaries(t)) :
             /\ Summaries(t)[i].success + Summaries(t)[i].failed
                    = Summaries(t)[i].total
             /\ Len(Summaries(t)[i].names) = Summaries(t)[i].failed
             /\ Summaries(t)[i].total = Len(run[t].statuses)

C4_Witness ==
    /\ Completed("manual")
    /\ Len(Summaries("manual")) = 1
    /\ Len(run["manual"].statuses) = 2
    /\ run["manual"].statuses[1].Error # "none"
    /\ run["manual"].statuses[2].HasBackup
    /\ Summaries("manual")[1].success = 1
    /\ Summaries("manual")[1].failed = 1

\* C5: in the dispatches of a cycle no alert follows the summary: the
\* summary, when there is one, is the last dispatch
C5_AlertsBeforeSummary ==
    \A t \in Runners :
        \A i \in 1..Len(run[t].sent) :
            run[t].sent[i].kind = "summary" => i = Len(run[t].sent)

C5_Witness ==
    /\ Completed("manual")
    /\ Len(run["manual"].sent) = 3
    /\ run["manual"].sent[1].kind = "alert"
    /\ run["manual"].sent[2].kind = "alert"
    /\ run["manual"].sent[3].kind = "summary"

\* a cycle whose credential step failed
CredentialFailed(t) == run[t].cred \in {"noexpiry", "failed"}

\* C6: when the credential step of a cycle fails, CheckOnce returns an
\* error, no monitored path is listed, no storage request is made, nothing
\* is dispatched, and the step leaves the stored access token, refresh token
\* and expiry (and the saved credential) as they were
C6_CredentialFailureAborts ==
    /\ [](\A t \in Runners :
            CredentialFailed(t) =>
                /\ run[t].pc = "idle"
                /\ run[t].ret = "err"
                /\ run[t].pi = 1
                /\ run[t].usedTokens = {}
                /\ run[t].statuses = <<>>
                /\ run[t].sent = <<>>
                /\ run[t].saves = 0)
    /\ [][\A t \in Runners :
            (run[t].pc = "refresh" /\ run'[t].pc # "refresh"
             /\ (NoExpiry(config) \/ run'[t].ret = "err"))
            => /\ CredentialFailed(t)'
               /\ config' = config
               /\ disk' = disk]_vars

C6_Witness ==
    /\ run["manual"].cred = "failed"
    /\ run["manual"].ret = "err"
    /\ config.RefreshToken # NoToken
    /\ config.MonitorPaths # <<>>
    /\ telegram = "bot"

\* C7: when an expiry is recorded, the credential step calls the refresh
\* collaborator iff expiry - now <= 10 minutes; when expiry - now exceeds
\* 10 minutes it makes no call and leaves the credential as it was
C7_RefreshIffWithinMargin ==
    [][\A t \in Runners :
         (run[t].pc = "refresh" /\ run'[t].pc # "refresh"
          /\ config.TokenExpiry # 0)
         => /\ run'[t].refreshCalls = 1
                <=> config.TokenExpiry - now <= RefreshMargin
            /\ run'[t].refreshCalls \in {0, 1}
            /\ config.TokenExpiry - now > RefreshMargin =>
                 /\ config' = config
                 /\ disk' = disk
                 /\ issued' = issued
                 /\ run'[t].cred = "valid"
                 /\ run'[t].client = config.AccessToken]_vars

\* the collaborator was called for a token at exactly the margin
C7_Witness ==
    /\ run["manual"].cred = "failed"
    /\ run["manual"].refreshCalls = 1
    /\ config.TokenExpiry - now = RefreshMargin

\* C8: when no expiry was ever recorded the credential step fails at once
\* with the error of an unset expiry and does not call the refresh
\* collaborator
C8_NoExpiryFailsAtOnce ==
    [][\A t \in Runners :
         (run[t].pc = "refresh" /\ run'[t].pc # "refresh"
          /\ config.TokenExpiry = 0)
         => /\ run'[t].cred = "noexpiry"
            /\ run'[t].ret = "err"
            /\ run'[t].pc = "idle"
            /\ run'[t].refreshCalls = 0
            /\ issued' = issued
            /\ config' = config]_vars

C8_Witness ==
    /\ run["manual"].cred = "noexpiry"
    /\ run["manual"].ret = "err"
    /\ run["manual"].refreshCalls = 0
    /\ config.TokenExpiry = 0
    /\ config.RefreshToken # NoToken

\* C9, as stated: after a failed listing of a monitored path the other paths
\* are checked and the summary is sent
C9_Original ==
    \A t \in Runners :
        (Completed(t) /\ run[t].listFailed # {}) =>
            /\ [i \in 1..Len(run[t].statuses) |-> run[t].statuses[i].FolderPath]
                   = ListedFolders(1, config.MonitorPaths, run[t].listFailed)
            /\ Len(Summaries(t)) = 1

\* C9, amended: a monitored path whose listing fails contributes no status
\* and the cycle goes on: every path is visited, the statuses are those of
\* the client folders of the paths that were listed, in order, and the
\* summary with that total is attempted when the monitor has a Telegram
\* client
C9_FailedPathSkipped ==
    \A t \in Runners :
        /\ run[t].listFailed \subseteq 1..(run[t].pi - 1)
        /\ Completed(t) =>
            /\ run[t].pi = Len(config.MonitorPaths) + 1
            /\ [i \in 1..Len(run[t].statuses) |-> run[t].statuses[i].FolderPath]
                   = ListedFolders(1, config.MonitorPaths, run[t].listFailed)
            /\ telegram # "nil" =>
                 /\ Len(Summaries(t)) = 1
                 /\ Summaries(t)[1].total
                        = Len(ListedFolders(1, config.MonitorPaths,
                                            run[t].listFailed))

C9_Witness ==
    /\ Completed("manual")
    /\ telegram = "bot"
    /\ Len(config.MonitorPaths) = 2
    /\ run["manual"].listFailed = {1}
    /\ Len(run["manual"].statuses) = 1
    /\ run["manual"].statuses[1].FolderPath[1] = config.MonitorPaths[2]
    /\ Len(Summaries("manual")) = 1
    /\ Summaries("manual")[1].total = 1

\* a client folder that was listed and has no folder named snapshots
NoSnapshotsFolder(sub) ==
    sub.ok /\ \A i \in 1..Len(sub.names) : sub.names[i] # "snapshots"

\* checkClientBackup gives every client folder without a folder named
\* exactly snapshots the errored status of a missing snapshots folder
MissingFolderErrors ==
    \A n \in Clock, sub \in SubfolderResponses :
      \A con \in ContentResponses(n), second \in SnapshotListings(n) :
        NoSnapshotsFolder(sub) =>
            LET st == checkClientBackup(<<>>, "", GetAllSnapshots(sub, con),
                                        second, n)
            IN  st.Error = "nosnapshots" /\ ~st.HasBackup /\ st.FileCount = 0

\* C10: a client whose folder has no sub-folder named exactly snapshots gets
\* an errored status, is in the failed-client list and not in the success
\* count, and the clients after it are still checked
C10_MissingSnapshotsFails ==
    /\ MissingFolderErrors
    /\ \A t \in Runners :
         /\ \A i \in 1..Len(run[t].statuses) :
              run[t].statuses[i].Error = "nosnapshots" =>
                  /\ ~run[t].statuses[i].HasBackup
                  /\ \E k \in 1..Len(FailedStatuses(t)) :
                       /\ FailedStatuses(t)[k] = run[t].statuses[i]
                       /\ run[t].failedClients[k]
                              = run[t].statuses[i].ClientName
         /\ run[t].successCount = Len(FreshStatuses(t))
         /\ Completed(t) =>
              [i \in 1..Len(run[t].statuses) |-> run[t].statuses[i].FolderPath]
                  = ListedFolders(1, config.MonitorPaths, run[t].listFailed)

C10_Witness ==
    /\ Completed("manual")
    /\ Len(config.MonitorPaths) = 1
    /\ Len(run["manual"].statuses) = 2
    /\ run["manual"].statuses[1].Error = "nosnapshots"
    /\ run["manual"].statuses[2].Error = "none"
    /\ run["manual"].statuses[2].HasBackup
    /\ run["manual"].failedClients = <<run["manual"].statuses[1].ClientName>>
    /\ run["manual"].successCount = 1

\* the files of a listing whose UTC calendar day is that of n
FilesOfDay(files, n) == SelectSeq(files, LAMBDA f : f \div Day = n \div Day)

\* CheckTodayBackups and checkClientBackup take for fresh the files created
\* on the UTC day of now, whatever the hours elapsed
FreshIsSameDay ==
    \A n \in Clock, files \in SeqsUpTo(CreatedTimes, MaxFiles) :
        LET listing == [err |-> "none", files |-> files]
            today == CheckTodayBackups(listing, n)
        IN  /\ today.files = FilesOfDay(files, n)
            /\ today.hasBackup <=>
                 \E i \in 1..Len(files) : files[i] \div Day = n \div Day
            /\ \A i \in 1..Len(files) :
                 files[i] \div Day = (n \div Day) - 1 =>
                     \A k \in 1..Len(today.files) : today.files[k] # files[i]
            /\ \A second \in SnapshotListings(n) :
                 LET st == checkClientBackup(<<>>, "", listing, second, n)
                 IN  /\ st.Error = "none"
                     /\ st.HasBackup <=> Len(FilesOfDay(files, n)) > 0
                     /\ st.FileCount = Len(FilesOfDay(files, n))

C20_ResetPersistsEmpty ==
    (cli.cmd = "reset" /\ cli.confirmed) =>
        /\ cli.report = "ok"
        /\ disk = Credential(ZeroConfig)

\* C17: a dispatch that fails is attempted once, leaves the counts as they
\* were computed, is followed by the remaining alerts and by the summary,
\* and CheckOnce still returns without an error
C17_FailedDispatchIsolated ==
    \A t \in Runners :
        /\ run[t].sendFailed \subseteq 1..Len(run[t].sent)
        /\ (run[t].sendFailed # {} \/ run[t].notifyErr) =>
             /\ run[t].pc = "idle"
             /\ run[t].ret = "nil"
        /\ run[t].sendFailed # {} =>
             /\ Len(run[t].sent) = Len(FailedStatuses(t)) + 1
             /\ Len(AlertsSent(t)) = Len(FailedStatuses(t))
             /\ \A i \in 1..Len(AlertsSent(t)) :
                  /\ run[t].sent[i] = AlertsSent(t)[i]
                  /\ AlertsSent(t)[i].client = FailedStatuses(t)[i].ClientName
                  /\ AlertsSent(t)[i].folder = FailedStatuses(t)[i].FolderPath
             /\ run[t].sent[Len(run[t].sent)].kind = "summary"
             /\ run[t].sent[Len(run[t].sent)].total = Len(run[t].statuses)
             /\ run[t].sent[Len(run[t].sent)].success = Len(FreshStatuses(t))
             /\ run[t].sent[Len(run[t].sent)].failed = Len(FailedStatuses(t))
             /\ run[t].successCount = Len(FreshStatuses(t))
             /\ run[t].failedCount = Len(FailedStatuses(t))
             /\ Len(run[t].failedClients) = run[t].failedCount

\* the first of two alerts failed, the second and the summary were attempted
C17_Witness ==
    /\ run["manual"].pc = "idle"
    /\ run["manual"].ret = "nil"
    /\ run["manual"].sendFailed = {1}
    /\ Len(run["manual"].sent) = 3
    /\ run["manual"].sent[2].kind = "alert"
    /\ run["manual"].sent[3].kind = "summary"
    /\ run["manual"].sent[3].failed = 2

\* C12: when monitoring is disabled Start returns at once: it runs no check
\* cycle, starts no loop and nothing is dispatched
C12_DisabledRunsNothing ==
    /\ [](~config.Enabled =>
            /\ run["sched"] = NoCycle
            /\ sched.loop = "none"
            /\ sched.wg = 0
            /\ sched.start \in {"idle", "returned"})
    /\ [][(~config.Enabled /\ sched.start = "idle" /\ sched'.start # "idle")
            => (sched'.start = "returned" /\ run' = run)]_vars

C12_Witness ==
    /\ ~config.Enabled
    /\ sched.start = "returned"
    /\ run["sched"] = NoCycle
    /\ sched.loop = "none"

\* C13: when monitoring is enabled Start runs one cycle at once, before the
\* loop exists and before any waiting; afterwards, with a ticker that keeps
\* firing and no stop signal, cycles of the loop start again and again
C13_InitialThenPeriodic ==
    /\ [][(sched.start = "idle" /\ sched'.start # "idle" /\ config.Enabled)
            => /\ sched'.start = "initial"
               /\ run'["sched"].pc = "refresh"
               /\ run'["sched"].cycles = 1
               /\ sched'.loop = "none"]_vars
    /\ [](sched.loop # "none" => run["sched"].cycles >= 1)
    /\ [](sched.start \in {"initial", "waitStop", "waitWg"} =>
            run["sched"].cycles >= 1)
    /\ (<>(sched.start = "initial")) =>
          ([]<><<LoopTick>>_vars \/ <>(sched.stopChan = "closed"))

\* the loop has started the cycle after the initial one and no stop was
\* signalled
C13_Witness ==
    /\ config.Enabled
    /\ sched.loop = "running"
    /\ sched.stopChan = "open"
    /\ run["sched"].cycles >= 2
    /\ Completed("sched")
    /\ Len(Summaries("sched")) = 1

\* C14: after a stop signal given while the loop is in its select, between
\* cycles, no new check cycle starts (the statement the code violates)
C14_NoCycleAfterStop == sched.stopAt.where = "select" => ~InCycle("sched")

\* the loop that has been signalled to stop terminates
LoopTerminates == (sched.stopChan = "closed" /\ sched.loop = "running")
                      ~> (sched.loop = "exited")

\* a cycle of the scheduler that has returned did all its work: after a
\* failed credential step nothing, otherwise every monitored path was
\* visited, every client folder listed has its status, and with a Telegram
\* client the alerts and then the summary were attempted
CycleRanToItsEnd ==
    LET c == run["sched"] IN
    (c.pc = "idle" /\ c.cycles > 0) =>
        /\ c.ret \in {"nil", "err"}
        /\ c.ret = "nil" =>
             /\ c.pi = Len(config.MonitorPaths) + 1
             /\ c.pending = <<>>
             /\ [i \in 1..Len(c.statuses) |-> c.statuses[i].FolderPath]
                    = ListedFolders(1, config.MonitorPaths, c.listFailed)
             /\ telegram # "nil" =>
                  /\ Len(c.sent) = Len(FailedStatuses("sched")) + 1
                  /\ c.sent[Len(c.sent)].kind = "summary"
                  /\ c.sent[Len(c.sent)].total = Len(c.statuses)

\* C15: a stop signal does not interrupt a cycle: the loop returns only
\* between cycles, Stop changes nothing of the cycle in flight, which goes
\* on to its end during the stop as without it, and the cycle in flight
\* when Stop is called does end
C15_StopWaitsForCycle ==
    /\ []CycleRanToItsEnd
    /\ [][(sched.loop = "running" /\ sched'.loop = "exited")
            => (~InCycle("sched") /\ run' = run)]_vars
    /\ [][(sched.stopChan = "open" /\ sched'.stopChan = "closed")
            => run' = run]_vars
    /\ (sched.stopChan = "closed" /\ InCycle("sched"))
           ~> (~InCycle("sched") /\ run["sched"].ret # "none")

\* Stop was called during the second cycle, before its client was checked;
\* the cycle checked the client and attempted the summary, then the loop
\* returned
C15_Witness ==
    /\ sched.stopAt.where = "cycle"
    /\ sched.stopAt.cycle = 2
    /\ sched.stopAt.checked = 0
    /\ run["sched"].cycles = 2
    /\ Completed("sched")
    /\ Len(run["sched"].statuses) = 1
    /\ Len(Summaries("sched")) = 1
    /\ sched.loop = "exited"

\* a cycle of the scheduler has returned an error
CycleFailed == run["sched"].pc = "idle" /\ run["sched"].ret = "err"

\* C16: a cycle that returns an error, the initial one or one of the loop,
\* ends nothing but itself: after a failed initial cycle Start still starts
\* the loop, the loop returns only on a stop signal, and after a failed
\* cycle of the loop the next cycle starts at a later tick unless a stop is
\* signalled
C16_FailedCycleKeepsLoop ==
    /\ [][(sched.loop = "running" /\ sched'.loop = "exited")
            => sched.stopChan = "closed"]_vars
    /\ [][(sched.start = "initial" /\ sched'.start # "initial")
            => (sched'.start = "waitStop" /\ sched'.loop = "running")]_vars
    /\ (CycleFailed /\ sched.start = "initial") ~> (sched.loop = "running")
    /\ (CycleFailed /\ sched.loop = "running")
           ~> (InCycle("sched") \/ sched.stopChan = "closed")

\* every cycle of this monitor fails at its credential step; the loop is
\* in its second cycle
C16_Witness ==
    /\ config.TokenExpiry = 0
    /\ sched.loop = "running"
    /\ sched.stopChan = "open"
    /\ run["sched"].cycles = 2
    /\ CycleFailed

\* C18: when Stop has returned no check cycle of the monitor is in progress
\* (the statement the code violates)
C18_StopReturnsQuiescent == sched.stop = "returned" => ~InCycle("sched")

\* the start of a cycle of the scheduler: its record is made anew
SchedulerCycleStarts ==
    /\ run'["sched"] # run["sched"]
    /\ run'["sched"].pc = "refresh"

\* C19: the cycles of the scheduler run one after another: a cycle starts
\* only when the cycle before it has returned, and when that cycle got past
\* its credential step on a monitor with a Telegram client, after the
\* attempt of its summary
C19_CyclesInSequence ==
    [][SchedulerCycleStarts =>
         /\ run["sched"].pc = "idle"
         /\ run["sched"].cycles = 0 => sched.start = "idle"
         /\ run["sched"].cycles > 0 =>
              /\ run["sched"].ret \in {"nil", "err"}
              /\ sched.loop = "running"
              /\ (run["sched"].ret = "nil" /\ telegram # "nil") =>
                   /\ run["sched"].sent # <<>>
                   /\ run["sched"].sent[Len(run["sched"].sent)].kind = "summary"]_vars

\* the second cycle of the scheduler has attempted its summary and has
\* returned, and the loop can start the third
C19_Witness ==
    /\ run["sched"].cycles = 2
    /\ run["sched"].pc = "idle"
    /\ run["sched"].ret = "nil"
    /\ Len(Summaries("sched")) = 1
    /\ sched.loop = "running"
    /\ sched.stopChan = "open"
    /\ ENABLED LoopTick

\* C21: in a cycle no storage call is made before the credential step has
\* ended, the client of the cycle is built from the access token the
\* configuration holds at the end of that step, and every storage call of
\* the cycle carries that token
C21_CredentialBeforeStorage ==
    /\ [](\A t \in Runners :
            /\ run[t].pc = "refresh" =>
                 /\ run[t].usedTokens = {}
                 /\ run[t].statuses = <<>>
                 /\ run[t].pi = 1
            /\ run[t].usedTokens \subseteq {run[t].client}
            /\ run[t].usedTokens # {} =>
                 /\ run[t].cred \in {"valid", "refreshed"}
                 /\ run[t].usedTokens = {config.AccessToken})
    /\ [][\A t \in Runners :
            (run[t].pc = "refresh" /\ run'[t].pc = "check") =>
                /\ run'[t].client = config'.AccessToken
                /\ run'[t].usedTokens = {}]_vars

\* a cycle that refreshed its credential and then listed the path and the
\* client with the new access token
C21_Witness ==
    /\ Completed("manual")
    /\ run["manual"].cred = "refreshed"
    /\ disk = Credential(config)
    /\ run["manual"].usedTokens = {config.AccessToken}
    /\ Len(run["manual"].statuses) = 1

\* C22: a successful refresh replaces the stored access token, refresh token
\* and expiry by those of the new token and attempts one persist before any
\* storage call; whether the persist succeeded or not the cycle goes on with
\* the new access token and CheckOnce returns no error
C22_RefreshStoredAndPersisted ==
    /\ [][\A t \in Runners :
            (run[t].pc = "refresh" /\ run'[t].cred = "refreshed") =>
                /\ config'.AccessToken \notin {NoToken, config.AccessToken}
                /\ config'.RefreshToken # config.RefreshToken
                /\ config'.TokenExpiry \in {now + e : e \in ExpiresIn}
                /\ run'[t].refreshCalls = 1
                /\ run'[t].saves = 1
                /\ run'[t].usedTokens = {}
                /\ disk' \in {disk, Credential(config')}
                /\ run'[t].pc = "check"
                /\ run'[t].client = config'.AccessToken]_vars
    /\ [](\A t \in Runners :
            run[t].cred = "refreshed" =>
                /\ run[t].ret # "err"
                /\ run[t].saves = 1
                /\ run[t].usedTokens \subseteq {config.AccessToken}
                /\ run[t].pc = "idle" => Completed(t))

\* the persist of the refreshed credential failed: the disk holds the old
\* credential, the cycle checked its client with the new token and returned
\* without an error
C22_Witness ==
    /\ Completed("manual")
    /\ run["manual"].cred = "refreshed"
    /\ run["manual"].saves = 1
    /\ disk # Credential(config)
    /\ disk.AccessToken = 1
    /\ run["manual"].usedTokens = {config.AccessToken}
    /\ Len(run["manual"].statuses) = 1

\* C30: after a successful refresh the stored refresh token is not empty
\* (the statement the code violates)
C30_RefreshTokenKept ==
    \A t \in Runners :
        run[t].cred = "refreshed" => config.RefreshToken # NoToken

\* the greatest of a non-empty set of times
MaxTime(S) == CHOOSE m \in S : \A x \in S : x <= m

\* a listing with its files at i and j exchanged
Swapped(files, i, j) ==
    [k \in 1..Len(files) |->
        IF k = i THEN files[j] ELSE IF k = j THEN files[i] ELSE files[k]]

\* checkClientBackup errors the status for a failure of its first listing
\* and for nothing else: a failure of the second listing leaves the status
\* not errored, with the freshness and the count of the first listing and
\* no most recent time
FirstListingDecidesError ==
    \A n \in Clock :
      \A first, second \in SnapshotListings(n) :
        LET st == checkClientBackup(<<>>, "", first, second, n)
            today == CheckTodayBackups(first, n)
        IN  /\ first.err # "none" => st.Error = first.err
            /\ first.err = "none" =>
                 /\ st.Error = "none"
                 /\ st.HasBackup = today.hasBackup
                 /\ st.FileCount = Len(today.files)
                 /\ second.err # "none" => st.LastBackup = ZeroTime

\* C23 as stated: whenever a listing of the snapshots folder fails during
\* the check of a client, at any instant up to now, the status of the
\* client is errored
C23_Original ==
    \A n \in {m \in Clock : m <= now} :
      \A first, second \in SnapshotListings(n) :
        (first.err = "contents" \/ second.err = "contents") =>
            checkClientBackup(<<>>, "", first, second, n).Error # "none"

\* C23: when the first listing of a client (that of CheckTodayBackups)
\* fails, the status of the client is errored, the client is counted as
\* failed and named in the failed list, and the clients after it are still
\* checked; a failure of the second listing does not error the status
C23_FirstListingFailureErrors ==
    /\ FirstListingDecidesError
    /\ \A t \in Runners :
         /\ \A i \in 1..Len(run[t].statuses) :
              run[t].statuses[i].Error # "none" =>
                  \E k \in 1..Len(FailedStatuses(t)) :
                       /\ FailedStatuses(t)[k] = run[t].statuses[i]
                       /\ k <= Len(run[t].failedClients)
                       /\ run[t].failedClients[k]
                              = run[t].statuses[i].ClientName
         /\ run[t].failedCount = Len(FailedStatuses(t))
         /\ run[t].successCount = Len(FreshStatuses(t))
         /\ Completed(t) =>
              [i \in 1..Len(run[t].statuses) |-> run[t].statuses[i].FolderPath]
                  = ListedFolders(1, config.MonitorPaths, run[t].listFailed)

\* the listing of the first client's snapshots folder failed: its status is
\* errored and counted as failed, and the second client was checked and is
\* fresh
C23_Witness ==
    /\ Completed("manual")
    /\ Len(run["manual"].statuses) = 2
    /\ run["manual"].statuses[1].Error = "contents"
    /\ run["manual"].statuses[2].Error = "none"
    /\ run["manual"].statuses[2].HasBackup
    /\ run["manual"].failedCount = 1
    /\ run["manual"].failedClients = <<"Alpha">>
    /\ run["manual"].successCount = 1

\* checkClientBackup returns no errored status with a freshness, a count
\* or a most recent time
ErrorReturnsEarly ==
    \A n \in Clock :
      \A first, second \in SnapshotListings(n) :
        LET st == checkClientBackup(<<>>, "", first, second, n)
        IN  st.Error # "none" =>
              ~st.HasBackup /\ st.FileCount = 0 /\ st.LastBackup = ZeroTime

\* C24: a status whose error is present has freshness false, file count 0
\* and no most recent time
C24_ErroredStatusIsEmpty ==
    /\ ErrorReturnsEarly
    /\ \A t \in Runners :
         \A i \in 1..Len(run[t].statuses) :
            run[t].statuses[i].Error # "none" =>
                /\ ~run[t].statuses[i].HasBackup
                /\ run[t].statuses[i].FileCount = 0
                /\ run[t].statuses[i].LastBackup = ZeroTime

\* a fresh client with its count and most recent time, and after it an
\* errored one with none of them
C24_Witness ==
    /\ Len(run["manual"].statuses) = 2
    /\ run["manual"].statuses[1].Error = "none"
    /\ run["manual"].statuses[1].FileCount = MaxFiles
    /\ run["manual"].statuses[1].LastBackup = 2 * Day - 10
    /\ run["manual"].statuses[2].Error = "subfolders"
    /\ ~run["manual"].statuses[2].HasBackup
    /\ run["manual"].statuses[2].FileCount = 0
    /\ run["manual"].statuses[2].LastBackup = ZeroTime

\* the loop over the files returns the zero time for no file and else the
\* greatest creation time, whatever the order of the files
LoopFindsMaximum ==
    \A files \in SeqsUpTo(CreatedTimes, MaxFiles) :
        /\ LatestBackup(files, ZeroTime)
             = IF files = <<>> THEN ZeroTime ELSE MaxTime(Range(files))
        /\ \A i, j \in 1..Len(files) :
             LatestBackup(Swapped(files, i, j), ZeroTime)
                 = LatestBackup(files, ZeroTime)

\* checkClientBackup takes the most recent time from all the files of its
\* second listing
StatusCarriesMaximum ==
    \A n \in Clock :
      \A first, second \in SnapshotListings(n) :
        (first.err = "none" /\ second.err = "none") =>
            checkClientBackup(<<>>, "", first, second, n).LastBackup
                = IF second.files = <<>> THEN ZeroTime
                  ELSE MaxTime(Range(second.files))

\* C26: the most recent time of a status is zero for an empty second listing
\* and else the greatest creation time of the files listed, fresh or not,
\* whatever their order
C26_LatestIsMaximum ==
    /\ LoopFindsMaximum
    /\ StatusCarriesMaximum
    /\ \A t \in Runners :
         \A i \in 1..Len(run[t].statuses) :
            /\ run[t].statuses[i].LastBackup \in CreatedTimes
            /\ run[t].statuses[i].LastBackup <= now

\* after midnight, a client that is not fresh carries the time of its file
\* of the day before
C26_Witness ==
    /\ now = 2 * Day
    /\ Len(run["manual"].statuses) = 1
    /\ run["manual"].statuses[1].Error = "none"
    /\ ~run["manual"].statuses[1].HasBackup
    /\ run["manual"].statuses[1].FileCount = 0
    /\ run["manual"].statuses[1].LastBackup = 2 * Day - 10

\* C25: a cycle holds one status for each client folder of each monitored
\* path, and no client folder is checked, counted or alerted twice (the
\* statement the code violates)
C25_OneStatusPerFolder ==
    \A t \in Runners :
        /\ \A i, j \in 1..Len(run[t].statuses) :
              i < j => run[t].statuses[i].FolderPath
                           # run[t].statuses[j].FolderPath
        /\ \A i, j \in 1..Len(AlertsSent(t)) :
              i < j => AlertsSent(t)[i].folder # AlertsSent(t)[j].folder

\* C27: a status without an error that is fresh has a most recent time, and
\* that time lies on the UTC day of an instant of the check (the statement
\* the code violates)
C27_FreshHasRecentTime ==
    \A t \in Runners :
        \A i \in 1..Len(run[t].statuses) :
            (run[t].statuses[i].Error = "none"
             /\ run[t].statuses[i].HasBackup) =>
                /\ run[t].statuses[i].LastBackup # ZeroTime
                /\ \E n \in Clock :
                     /\ n <= now
                     /\ Truncate(run[t].statuses[i].LastBackup) = Truncate(n)

\* C28: the clients of a cycle are all judged against one instant, so that
\* no two of them are judged against different UTC days (the statement the
\* code violates)
C28_OneInstantPerCycle ==
    \A t \in Runners :
        \A a, b \in run[t].judgedAt : Truncate(a) = Truncate(b)

\* C29: a further call of Stop leaves the scheduler stopped and does not
\* fail (the statement the code violates)
C29_StopIdempotent == ~sched.panicked

====
